---- MODULE Spec2Model ----
(***************************************************************************)
(* Extension widgets and actions of the extensions viewlet                 *)
(* (extensionsWidgets.ts): every action derives {enabled, label, class}    *)
(* from the extension record it is bound to, on rebind and on the          *)
(* extensions workbench service's onChange event.                          *)
(***************************************************************************)
EXTENDS Naturals, Sequences, FiniteSets, TLC

\* ---------------------------------------------------------------- bounds
NumExtensions == 2
MaxPending == 2
\* the number of actions disposed in one behaviour
MaxDisposed == 2

\* ------------------------------------------------- the service's records
Extensions == 1..NumExtensions

\* the value of an `_extension` field nothing was assigned to
NoExtension == 0

ExtensionState == {"Uninstalled", "Installing", "Installed", "Disabled", "NeedsReload"}

LocalExtensionType == {"System", "User"}

\* what the service answers for one extension: its state, its type, its
\* outdated flag and canInstall(extension)
ExtensionRecord == [state : ExtensionState, type : LocalExtensionType,
                    outdated : BOOLEAN, canInstall : BOOLEAN]

VARIABLES
  records,      \* the extensions workbench service: Extensions -> ExtensionRecord
  install,      \* an InstallAction
  uninstall,    \* an UninstallAction
  update,       \* an UpdateAction
  enable,       \* an EnableAction
  disable,      \* a DisableAction
  reload,       \* a ReloadAction
  combined,     \* a CombinedInstallAction, with its two child actions
  updateAll,    \* an UpdateAllAction
  fresh,        \* the actions whose update() ran since the service last changed a record
  pending,      \* the service calls in flight whose completion this code waits for
  last,         \* what the most recent run() call, or completion callback, did
  joins,        \* the run() calls of UpdateAllAction whose TPromise.join is unsettled
  widget,       \* a display widget: a Label, Status-, Install- or RatingsWidget
  details,      \* what the widgets read of an extension: Extensions -> DetailRecord
  workspace,    \* whether contextService.getWorkspace() answers a workspace
  file,         \* the workspace's .vscode/extensions.json, as the file service has it
  editor,       \* the options the editor of that file was last opened with, if it was
  changeSort,   \* the ChangeSortAction constructed last, if one was
  navigation,   \* the enabled flag of each navigation action: name -> BOOLEAN
  disposed      \* the actions dispose() was called on

actions == <<install, uninstall, update, enable, disable, reload, combined, updateAll>>

\* the state the single-extension actions neither read nor write
workbench == <<workspace, file, editor, changeSort, navigation>>

host == <<joins, widget, details, workbench, disposed>>

vars == <<records, install, uninstall, update, enable, disable, reload,
          combined, updateAll, fresh, pending, last, joins, widget, details, workspace,
          file, editor, changeSort, navigation, disposed>>

\* ------------------------------------------------------ labels and classes
InstallLabel == "Install"
InstallingLabel == "Installing"
InstallClass == "extension-action install"
InstallingClass == "extension-action install installing"
UninstallLabel == "Uninstall"
UninstallClass == "extension-action uninstall"
NoExtensionClass == "extension-action install no-extension"
UpdateLabel == "Update"
UpdateEnabledClass == "extension-action update"
UpdateDisabledClass == "extension-action update disabled"
EnableLabel == "Enable"
EnableEnabledClass == "extension-action enable"
EnableDisabledClass == "extension-action enable disabled"
DisableLabel == "Disable"
DisableEnabledClass == "extension-action disable"
DisableDisabledClass == "extension-action disable disabled"
ReloadLabel == "Reload"
ReloadEnabledClass == "extension-action reload"
ReloadDisabledClass == "extension-action reload disabled"
UpdateAllLabel == "Update All Extensions"

\* super(id, label, class, enabled) of an action bound to nothing
NewAction(label, class) ==
  [extension |-> NoExtension, enabled |-> FALSE, label |-> label, class |-> class]

\* ------------------------------------------- update(): the assignments made
\* Each update() is the sequence of property assignments it makes, in the
\* order of the code; r is the service's record collection.

Bound(a) == a.extension # NoExtension

\* InstallAssigns restoring the class but not the label once the install is over
InstallAssignsKeepsLabel(a, r) ==
  IF ~Bound(a) \/ r[a.extension].type = "System"
  THEN << <<"enabled", FALSE>>, <<"class", InstallClass>>, <<"label", InstallLabel>> >>
  ELSE << <<"enabled", r[a.extension].canInstall /\ r[a.extension].state = "Uninstalled">> >>
       \o (IF r[a.extension].state = "Installing"
           THEN << <<"label", InstallingLabel>>, <<"class", InstallingClass>> >>
           ELSE << <<"class", InstallClass>> >>)

\* InstallAssigns enabling on canInstall alone, whatever the state
InstallAssignsIgnoresState(a, r) ==
  IF ~Bound(a) \/ r[a.extension].type = "System"
  THEN << <<"enabled", FALSE>>, <<"class", InstallClass>>, <<"label", InstallLabel>> >>
  ELSE << <<"enabled", r[a.extension].canInstall>> >>
       \o (IF r[a.extension].state = "Installing"
           THEN << <<"label", InstallingLabel>>, <<"class", InstallingClass>> >>
           ELSE << <<"label", InstallLabel>>, <<"class", InstallClass>> >>)

InstallAssigns(a, r) ==
  IF ~Bound(a) \/ r[a.extension].type = "System"
  THEN << <<"enabled", FALSE>>, <<"class", InstallClass>>, <<"label", InstallLabel>> >>
  ELSE << <<"enabled", r[a.extension].canInstall /\ r[a.extension].state = "Uninstalled">> >>
       \o (IF r[a.extension].state = "Installing"
           THEN << <<"label", InstallingLabel>>, <<"class", InstallingClass>> >>
           ELSE << <<"label", InstallLabel>>, <<"class", InstallClass>> >>)

\* UninstallAssigns leaving NeedsReload out of the installed states
UninstallAssignsWithoutNeedsReload(a, r) ==
  IF ~Bound(a) THEN << <<"enabled", FALSE>> >>
  ELSE IF r[a.extension].type # "User" THEN << <<"enabled", FALSE>> >>
  ELSE << <<"enabled", r[a.extension].state \in {"Installed", "Disabled"}>> >>

UninstallAssigns(a, r) ==
  IF ~Bound(a) THEN << <<"enabled", FALSE>> >>
  ELSE IF r[a.extension].type # "User" THEN << <<"enabled", FALSE>> >>
  ELSE << <<"enabled", r[a.extension].state \in {"Installed", "Disabled", "NeedsReload"}>> >>

\* UpdateAssigns without the outdated conjunct
UpdateAssignsIgnoresOutdated(a, r) ==
  IF ~Bound(a)
  THEN << <<"enabled", FALSE>>, <<"class", UpdateDisabledClass>> >>
  ELSE IF r[a.extension].type # "User"
  THEN << <<"enabled", FALSE>>, <<"class", UpdateDisabledClass>> >>
  ELSE LET en == r[a.extension].canInstall /\ r[a.extension].state \in {"Installed", "Disabled"}
       IN << <<"enabled", en>>,
             <<"class", IF en THEN UpdateEnabledClass ELSE UpdateDisabledClass>> >>

UpdateAssigns(a, r) ==
  IF ~Bound(a)
  THEN << <<"enabled", FALSE>>, <<"class", UpdateDisabledClass>> >>
  ELSE IF r[a.extension].type # "User"
  THEN << <<"enabled", FALSE>>, <<"class", UpdateDisabledClass>> >>
  ELSE LET canInstall == r[a.extension].canInstall
           isInstalled == r[a.extension].state \in {"Installed", "Disabled"}
           en == canInstall /\ isInstalled /\ r[a.extension].outdated
       IN << <<"enabled", en>>,
             <<"class", IF en THEN UpdateEnabledClass ELSE UpdateDisabledClass>> >>

\* EnableAssigns testing the state DisableAction tests
EnableAssignsTestsInstalled(a, r) ==
  IF ~Bound(a)
  THEN << <<"enabled", FALSE>>, <<"class", EnableDisabledClass>> >>
  ELSE LET en == r[a.extension].state = "Installed"
       IN << <<"enabled", en>>,
             <<"class", IF en THEN EnableEnabledClass ELSE EnableDisabledClass>> >>

EnableAssigns(a, r) ==
  IF ~Bound(a)
  THEN << <<"enabled", FALSE>>, <<"class", EnableDisabledClass>> >>
  ELSE LET en == r[a.extension].state = "Disabled"
       IN << <<"enabled", en>>,
             <<"class", IF en THEN EnableEnabledClass ELSE EnableDisabledClass>> >>

DisableAssigns(a, r) ==
  IF ~Bound(a)
  THEN << <<"enabled", FALSE>>, <<"class", DisableDisabledClass>> >>
  ELSE LET en == r[a.extension].state = "Installed"
       IN << <<"enabled", en>>,
             <<"class", IF en THEN DisableEnabledClass ELSE DisableDisabledClass>> >>

\* ReloadAssigns assigning the class only when no extension is bound
ReloadAssignsKeepsClass(a, r) ==
  IF ~Bound(a)
  THEN << <<"enabled", FALSE>>, <<"class", ReloadDisabledClass>> >>
  ELSE << <<"enabled", r[a.extension].state = "NeedsReload">> >>

ReloadAssigns(a, r) ==
  IF ~Bound(a)
  THEN << <<"enabled", FALSE>>, <<"class", ReloadDisabledClass>> >>
  ELSE LET en == r[a.extension].state = "NeedsReload"
       IN << <<"enabled", en>>,
             <<"class", IF en THEN ReloadEnabledClass ELSE ReloadDisabledClass>> >>

\* An action nobody listens to: the assignments applied in order.
RECURSIVE Assign(_, _)
Assign(a, assigns) ==
  IF assigns = <<>> THEN a
  ELSE Assign([a EXCEPT ![Head(assigns)[1]] = Head(assigns)[2]], Tail(assigns))

InstallUpdate(a, r) == Assign(a, InstallAssigns(a, r))
UninstallUpdate(a, r) == Assign(a, UninstallAssigns(a, r))
UpdateUpdate(a, r) == Assign(a, UpdateAssigns(a, r))
EnableUpdate(a, r) == Assign(a, EnableAssigns(a, r))
DisableUpdate(a, r) == Assign(a, DisableAssigns(a, r))
ReloadUpdate(a, r) == Assign(a, ReloadAssigns(a, r))

\* ------------------------------------------------- CombinedInstallAction
\* CombinedUpdate with the uninstall branch copying the install child's label and class
CombinedUpdateCopiesInstall(c, r) ==
  IF ~Bound(c) \/ r[c.extension].type = "System"
  THEN [c EXCEPT !.enabled = FALSE, !.class = NoExtensionClass]
  ELSE IF c.installAction.enabled \/ c.uninstallAction.enabled
  THEN [c EXCEPT !.enabled = TRUE, !.label = c.installAction.label,
                 !.class = c.installAction.class]
  ELSE [c EXCEPT !.enabled = FALSE, !.label = c.installAction.label,
                 !.class = c.installAction.class]

CombinedUpdate(c, r) ==
  IF ~Bound(c) \/ r[c.extension].type = "System"
  THEN [c EXCEPT !.enabled = FALSE, !.class = NoExtensionClass]
  ELSE IF c.installAction.enabled
  THEN [c EXCEPT !.enabled = TRUE, !.label = c.installAction.label,
                 !.class = c.installAction.class]
  ELSE IF c.uninstallAction.enabled
  THEN [c EXCEPT !.enabled = TRUE, !.label = c.uninstallAction.label,
                 !.class = c.uninstallAction.class]
  ELSE IF r[c.extension].state = "Installing"
  THEN [c EXCEPT !.enabled = FALSE, !.label = c.installAction.label,
                 !.class = c.installAction.class]
  ELSE [c EXCEPT !.enabled = FALSE, !.label = c.installAction.label,
                 !.class = c.installAction.class]

\* A property setter of a child action: the child's onDidChange fires, and the
\* composite's update() runs, exactly when the assignment changes the value.
SetChild(c, child, prop, value, r) ==
  IF c[child][prop] = value THEN c
  ELSE CombinedUpdate([c EXCEPT ![child][prop] = value], r)

RECURSIVE AssignChild(_, _, _, _)
AssignChild(c, child, assigns, r) ==
  IF assigns = <<>> THEN c
  ELSE AssignChild(SetChild(c, child, Head(assigns)[1], Head(assigns)[2], r),
                   child, Tail(assigns), r)

ChildInstallUpdate(c, r) ==
  AssignChild(c, "installAction", InstallAssigns(c.installAction, r), r)

ChildUninstallUpdate(c, r) ==
  AssignChild(c, "uninstallAction", UninstallAssigns(c.uninstallAction, r), r)

\* set extension(extension) of the composite
CombinedSetExtension(c, e, r) ==
  LET c1 == [c EXCEPT !.extension = e]
      c2 == ChildInstallUpdate([c1 EXCEPT !.installAction.extension = e], r)
  IN ChildUninstallUpdate([c2 EXCEPT !.uninstallAction.extension = e], r)

\* the constructor: super(id, '', '', false), the two children, update()
NewCombined(r) ==
  CombinedUpdate(
    [extension |-> NoExtension, enabled |-> FALSE, label |-> "", class |-> "",
     installAction |-> InstallUpdate(NewAction(InstallLabel, InstallClass), r),
     uninstallAction |-> UninstallUpdate(NewAction(UninstallLabel, UninstallClass), r)], r)

\* ------------------------------------------------------- UpdateAllAction
\* Outdated without the type filter
OutdatedAnyType(r) ==
  {e \in Extensions : /\ r[e].canInstall
                      /\ r[e].state \in {"Installed", "Disabled"}
                      /\ r[e].outdated}

Outdated(r) ==
  {e \in Extensions : /\ r[e].canInstall
                      /\ r[e].type = "User"
                      /\ r[e].state \in {"Installed", "Disabled"}
                      /\ r[e].outdated}

UpdateAllUpdate(a, r) == [a EXCEPT !.enabled = Cardinality(Outdated(r)) > 0]

NewUpdateAll(r) ==
  UpdateAllUpdate([enabled |-> FALSE, label |-> UpdateAllLabel, class |-> ""], r)

\* ------------------------------------------------------- display widgets
\* a field of a record that holds null, and one that holds the value v
Null == <<>>

Some(v) == <<v>>

DisplayNames == {"Go", "Python"}

InstallCounts == {0, 900, 1000, 1001, 15000, 1000000, 2500000}

\* ratings in hundredths of a star, 0 to 5 stars
Ratings == {0, 25, 430, 500}

RatingCounts == {0, 12}

\* what the gallery and the runtime service answer for one extension, read by
\* the widgets only: display name, install count, rating, rating count, and
\* whether getDisabledExtensions(true) lists the extension
DetailRecord == [displayName : DisplayNames,
                 installCount : {Null} \cup {Some(n) : n \in InstallCounts},
                 rating : {Null} \cup {Some(x) : x \in Ratings},
                 ratingCount : RatingCounts,
                 disabledInWorkspace : BOOLEAN]

\* a local extension the gallery knows nothing about
NoDetail == [displayName |-> "Go", installCount |-> Null, rating |-> Null,
             ratingCount |-> 0, disabledInWorkspace |-> FALSE]

WidgetKinds == {"Label", "StatusWidget", "InstallWidget", "RatingsWidget"}

\* Label.render with fn = extension => extension.displayName
LabelRender(w, d) == <<IF Bound(w) THEN d[w.extension].displayName ELSE "">>

StatusWidgetRender(w, r, d) ==
  IF ~Bound(w) THEN <<>>
  ELSE LET state == r[w.extension].state
           installed == state = "Installed"
           disabled == state = "Disabled"
           disabledInWorkspace == d[w.extension].disabledInWorkspace
       IN <<IF disabled THEN "extension-status disabled"
            ELSE IF installed THEN "extension-status active" ELSE "extension-status",
            IF disabledInWorkspace THEN "Disabled (Workspace)"
            ELSE IF disabled THEN "Disabled"
            ELSE IF installed THEN "Enabled" ELSE "">>

\* the text of the count: installLabel || String(installCount)
InstallCountLabel(small, installCount) ==
  IF small /\ installCount > 1000000 THEN ToString(installCount \div 1000000) \o "M"
  ELSE IF small /\ installCount > 1000 THEN ToString(installCount \div 1000) \o "K"
  ELSE ToString(installCount)

InstallWidgetRender(w, d) ==
  IF ~Bound(w) THEN <<>>
  ELSE LET installCount == d[w.extension].installCount
       IN IF installCount = Null THEN <<>>
          ELSE <<"octicon-cloud-download", InstallCountLabel(w.small, installCount[1])>>

\* HalfStars rounding down
HalfStarsRoundsDown(rating) == (2 * rating) \div 100

\* Math.round(rating * 2), the rating in half stars, of a rating in hundredths
HalfStars(rating) == (2 * rating + 50) \div 100

\* String(rating) of a rating in half stars
RatingText(half) ==
  IF half % 2 = 0 THEN ToString(half \div 2) ELSE ToString(half \div 2) \o ".5"

Star(half, i) ==
  IF half >= 2 * i THEN "full" ELSE IF half >= 2 * i - 1 THEN "half" ELSE "empty"

RatingsWidgetRender(w, d) ==
  IF ~Bound(w) THEN <<>>
  ELSE LET rating == d[w.extension].rating
       IN IF rating = Null THEN <<>>
          ELSE IF w.small /\ d[w.extension].ratingCount = 0 THEN <<>>
          ELSE IF w.small THEN <<"full", RatingText(HalfStars(rating[1]))>>
          ELSE [i \in 1..5 |-> Star(HalfStars(rating[1]), i)]

\* Render leaving the element alone when nothing is bound
RenderOnlyWhenBound(w, r, d) ==
  IF ~Bound(w) THEN w
  ELSE [w EXCEPT !.display =
          CASE w.kind = "Label" -> LabelRender(w, d)
            [] w.kind = "StatusWidget" -> StatusWidgetRender(w, r, d)
            [] w.kind = "InstallWidget" -> InstallWidgetRender(w, d)
            [] w.kind = "RatingsWidget" -> RatingsWidgetRender(w, d)]

\* render(): the content of the widget's element
Render(w, r, d) ==
  [w EXCEPT !.display =
     CASE w.kind = "Label" -> LabelRender(w, d)
       [] w.kind = "StatusWidget" -> StatusWidgetRender(w, r, d)
       [] w.kind = "InstallWidget" -> InstallWidgetRender(w, d)
       [] w.kind = "RatingsWidget" -> RatingsWidgetRender(w, d)]

\* the constructor, given no extension: renders, and subscribes to onChange
NewWidget(kind, small) ==
  Render([kind |-> kind, small |-> small, extension |-> NoExtension,
          disposed |-> FALSE, display |-> <<>>], <<>>, <<>>)

\* ----------------------------------------------------------------- state
\* no ChangeSortAction was constructed
NoChangeSort == [constructed |-> FALSE]

ActionNames == {"install", "uninstall", "update", "enable", "disable", "reload",
                "combined", "updateAll"}

\* the actions whose dispose() releases the onChange listener: EnableAction,
\* DisableAction and ReloadAction push theirs to disposables and inherit
\* dispose() as it is; UpdateAllAction's own dispose() releases it
Releasing == {"install", "uninstall", "update", "combined", "updateAll"}

\* whether the onChange listener of the action still runs its update()
Subscribed(n) == n \notin disposed \cap Releasing

\* the listeners of onChange: the actions and the widget, each until its
\* dispose() releases its listener
Listeners(w) == {n \in ActionNames : Subscribed(n)} \cup (IF w.disposed THEN {} ELSE {"widget"})

\* the navigation actions but ChangeSortAction, whose flag is changeSort's
NavigationActions == {"ShowInstalledExtensionsAction", "ShowDisabledExtensionsAction",
                      "ShowOutdatedExtensionsAction", "ShowPopularExtensionsAction",
                      "ShowRecommendedExtensionsAction",
                      "ShowWorkspaceRecommendedExtensionsAction",
                      "ClearExtensionsInputAction", "OpenExtensionsFolderAction",
                      "ConfigureWorkspaceRecommendedExtensionsAction", "InstallVSIXAction"}

\* the actions constructed with !!contextService.getWorkspace()
WorkspaceGated == {"ShowWorkspaceRecommendedExtensionsAction",
                   "ConfigureWorkspaceRecommendedExtensionsAction"}

\* NewNavigation constructing every action but ClearExtensionsInputAction enabled
NewNavigationIgnoresWorkspace(a, ws) == a # "ClearExtensionsInputAction"

\* the enabled flag each constructor leaves: super(id, label, class, enabled),
\* and this.enabled = false in ClearExtensionsInputAction
NewNavigation(a, ws) ==
  IF a \in WorkspaceGated THEN ws
  ELSE a # "ClearExtensionsInputAction"

\* no run() call happened in the last step
NoRun == [op |-> "none", delegate |-> "none", prompt |-> "none", answer |-> "none",
          settled |-> "none", issued |-> {}, result |-> "none", message |-> {},
          reloaded |-> FALSE, outstanding |-> {}, action |-> "none", viewlet |-> <<>>,
          opened |-> {}, content |-> "none", error |-> {}, arguments |-> <<>>]

Init ==
  /\ records \in [Extensions -> ExtensionRecord]
  /\ install = InstallUpdate(NewAction(InstallLabel, InstallClass), records)
  /\ uninstall = UninstallUpdate(NewAction(UninstallLabel, UninstallClass), records)
  /\ update = UpdateUpdate(NewAction(UpdateLabel, UpdateDisabledClass), records)
  /\ enable = EnableUpdate(NewAction(EnableLabel, EnableDisabledClass), records)
  /\ disable = DisableUpdate(NewAction(DisableLabel, DisableDisabledClass), records)
  /\ reload = ReloadUpdate(NewAction(ReloadLabel, ReloadDisabledClass), records)
  /\ combined = NewCombined(records)
  /\ updateAll = NewUpdateAll(records)
  /\ pending = <<>>
  /\ last = NoRun
  /\ joins = <<>>
  /\ details = [e \in Extensions |-> NoDetail]
  /\ workspace \in BOOLEAN
  /\ file \in {"absent", "present"}
  /\ editor = {}
  /\ changeSort = NoChangeSort
  /\ navigation = [a \in NavigationActions |-> NewNavigation(a, workspace)]
  /\ disposed = {}
  /\ \E kind \in WidgetKinds, small \in BOOLEAN :
        /\ small => kind \in {"InstallWidget", "RatingsWidget"}
        /\ widget = NewWidget(kind, small)
  /\ fresh = Listeners(widget)

\* ------------------------------------------------------------ the service
\* The service changes one field of one record; the onChange event follows.
ServiceChange(e, f, v) ==
  /\ records[e][f] # v
  /\ records' = [records EXCEPT ![e][f] = v]
  /\ fresh' = {}
  /\ last' = NoRun
  /\ UNCHANGED <<actions, pending, host>>

MutateState == \E e \in Extensions, v \in ExtensionState : ServiceChange(e, "state", v)

MutateType == \E e \in Extensions, v \in LocalExtensionType : ServiceChange(e, "type", v)

MutateOutdated == \E e \in Extensions, v \in BOOLEAN : ServiceChange(e, "outdated", v)

MutateCanInstall == \E e \in Extensions, v \in BOOLEAN : ServiceChange(e, "canInstall", v)

\* onChange fires: every subscribed listener runs
Notify ==
  /\ install' = IF Subscribed("install") THEN InstallUpdate(install, records) ELSE install
  /\ uninstall' = IF Subscribed("uninstall") THEN UninstallUpdate(uninstall, records)
                  ELSE uninstall
  /\ update' = IF Subscribed("update") THEN UpdateUpdate(update, records) ELSE update
  /\ enable' = IF Subscribed("enable") THEN EnableUpdate(enable, records) ELSE enable
  /\ disable' = IF Subscribed("disable") THEN DisableUpdate(disable, records) ELSE disable
  /\ reload' = IF Subscribed("reload") THEN ReloadUpdate(reload, records) ELSE reload
  /\ combined' = IF Subscribed("combined")
                 THEN ChildUninstallUpdate(ChildInstallUpdate(combined, records), records)
                 ELSE combined
  /\ updateAll' = IF Subscribed("updateAll") THEN UpdateAllUpdate(updateAll, records)
                  ELSE updateAll
  /\ widget' = IF widget.disposed THEN widget ELSE Render(widget, records, details)
  /\ fresh' = Listeners(widget)
  /\ last' = NoRun
  /\ UNCHANGED <<records, pending, joins, details, workbench, disposed>>

\* ----------------------------------------------------- set extension(...)
Targets == Extensions \cup {NoExtension}

RebindInstall ==
  \E e \in Targets :
     /\ install' = InstallUpdate([install EXCEPT !.extension = e], records)
     /\ fresh' = fresh \cup {"install"}
     /\ last' = NoRun
     /\ UNCHANGED <<host, records, uninstall, update, enable, disable, reload, combined,
                    updateAll, pending>>

RebindUninstall ==
  \E e \in Targets :
     /\ uninstall' = UninstallUpdate([uninstall EXCEPT !.extension = e], records)
     /\ fresh' = fresh \cup {"uninstall"}
     /\ last' = NoRun
     /\ UNCHANGED <<host, records, install, update, enable, disable, reload, combined,
                    updateAll, pending>>

RebindUpdate ==
  \E e \in Targets :
     /\ update' = UpdateUpdate([update EXCEPT !.extension = e], records)
     /\ fresh' = fresh \cup {"update"}
     /\ last' = NoRun
     /\ UNCHANGED <<host, records, install, uninstall, enable, disable, reload, combined,
                    updateAll, pending>>

RebindEnable ==
  \E e \in Targets :
     /\ enable' = EnableUpdate([enable EXCEPT !.extension = e], records)
     /\ fresh' = fresh \cup {"enable"}
     /\ last' = NoRun
     /\ UNCHANGED <<host, records, install, uninstall, update, disable, reload, combined,
                    updateAll, pending>>

RebindDisable ==
  \E e \in Targets :
     /\ disable' = DisableUpdate([disable EXCEPT !.extension = e], records)
     /\ fresh' = fresh \cup {"disable"}
     /\ last' = NoRun
     /\ UNCHANGED <<host, records, install, uninstall, update, enable, reload, combined,
                    updateAll, pending>>

RebindReload ==
  \E e \in Targets :
     /\ reload' = ReloadUpdate([reload EXCEPT !.extension = e], records)
     /\ fresh' = fresh \cup {"reload"}
     /\ last' = NoRun
     /\ UNCHANGED <<host, records, install, uninstall, update, enable, disable, combined,
                    updateAll, pending>>

RebindCombined ==
  \E e \in Targets :
     /\ combined' = CombinedSetExtension(combined, e, records)
     /\ fresh' = fresh \cup {"combined"}
     /\ last' = NoRun
     /\ UNCHANGED <<host, records, install, uninstall, update, enable, disable, reload,
                    updateAll, pending>>

\* ------------------------------------------------------------------ run()
\* What one run() call, or one completion callback, does is a record:
\*   op        the method that ran
\*   delegate  the child whose run() the composite called
\*   prompt    the window.confirm message shown, answer the user's answer
\*   settled   how the awaited service promise settled (completion callbacks)
\*   issued    the requests made to the extensions workbench service
\*   result    "pending" (a promise still to settle), "null" (completed with
\*             null), "resolved", "rejected" or "threw"
\*   message   what messageService.show displayed
\*   reloaded  whether ReloadWindowAction.run() was called

Request(op, e) == [op |-> op, extension |-> e]

InstallRunOutcome(a) ==
  [NoRun EXCEPT !.op = "install.run", !.issued = {Request("install", a.extension)},
                !.result = "pending"]

\* UninstallRunOutcome asking the service before asking the user
UninstallRunOutcomeRequestsFirst(a, accept) ==
  IF ~Bound(a)
  THEN [NoRun EXCEPT !.op = "uninstall.run", !.result = "threw"]
  ELSE IF ~accept
  THEN [NoRun EXCEPT !.op = "uninstall.run", !.prompt = "deleteSure", !.answer = "declined",
                     !.issued = {Request("uninstall", a.extension)}, !.result = "null"]
  ELSE [NoRun EXCEPT !.op = "uninstall.run", !.prompt = "deleteSure", !.answer = "accepted",
                     !.issued = {Request("uninstall", a.extension)}, !.result = "pending"]

\* Reading displayName of an unbound extension throws before the prompt.
UninstallRunOutcome(a, accept) ==
  IF ~Bound(a)
  THEN [NoRun EXCEPT !.op = "uninstall.run", !.result = "threw"]
  ELSE IF ~accept
  THEN [NoRun EXCEPT !.op = "uninstall.run", !.prompt = "deleteSure", !.answer = "declined",
                     !.result = "null"]
  ELSE [NoRun EXCEPT !.op = "uninstall.run", !.prompt = "deleteSure", !.answer = "accepted",
                     !.issued = {Request("uninstall", a.extension)}, !.result = "pending"]

\* UninstallThenOutcome showing the message whatever the outcome of the request
UninstallThenOutcomeAlwaysShows(a, ok) ==
  IF ~Bound(a)
  THEN [NoRun EXCEPT !.op = "uninstall.then", !.settled = "resolved", !.result = "rejected"]
  ELSE [NoRun EXCEPT !.op = "uninstall.then",
                     !.settled = IF ok THEN "resolved" ELSE "rejected",
                     !.result = IF ok THEN "resolved" ELSE "rejected",
                     !.message = {[text |-> "postUninstallMessage", extension |-> a.extension]}]

\* the then-callback of uninstall(): the message names this.extension as it is
\* bound when the callback runs
UninstallThenOutcome(a, ok) ==
  IF ~ok
  THEN [NoRun EXCEPT !.op = "uninstall.then", !.settled = "rejected", !.result = "rejected"]
  ELSE IF ~Bound(a)
  THEN [NoRun EXCEPT !.op = "uninstall.then", !.settled = "resolved", !.result = "rejected"]
  ELSE [NoRun EXCEPT !.op = "uninstall.then", !.settled = "resolved", !.result = "resolved",
                     !.message = {[text |-> "postUninstallMessage", extension |-> a.extension]}]

\* CombinedRunOutcome falling through to the uninstall child without testing it
CombinedRunOutcomeFallsThrough(c, accept) ==
  IF c.installAction.enabled
  THEN [InstallRunOutcome(c.installAction) EXCEPT !.op = "combined.run",
                                                  !.delegate = "installAction"]
  ELSE [UninstallRunOutcome(c.uninstallAction, accept) EXCEPT !.op = "combined.run",
                                                              !.delegate = "uninstallAction"]

CombinedRunOutcome(c, accept) ==
  IF c.installAction.enabled
  THEN [InstallRunOutcome(c.installAction) EXCEPT !.op = "combined.run",
                                                  !.delegate = "installAction"]
  ELSE IF c.uninstallAction.enabled
  THEN [UninstallRunOutcome(c.uninstallAction, accept) EXCEPT !.op = "combined.run",
                                                              !.delegate = "uninstallAction"]
  ELSE [NoRun EXCEPT !.op = "combined.run", !.result = "null"]

ReloadRunOutcome == [NoRun EXCEPT !.op = "reload.run", !.result = "pending"]

ReloadMessage(disabled, installed) ==
  IF disabled \/ ~installed THEN "postEnableMessage" ELSE "postDisableMessage"

\* ReloadThenOutcome reloading the window whatever the user answers
ReloadThenOutcomeIgnoresAnswer(a, ok, disabled, installed, accept) ==
  IF ~ok
  THEN [NoRun EXCEPT !.op = "reload.then", !.settled = "rejected", !.result = "rejected"]
  ELSE IF ~Bound(a)
  THEN [NoRun EXCEPT !.op = "reload.then", !.settled = "resolved", !.result = "rejected"]
  ELSE [NoRun EXCEPT !.op = "reload.then", !.settled = "resolved",
                     !.prompt = ReloadMessage(disabled, installed),
                     !.answer = IF accept THEN "accepted" ELSE "declined",
                     !.reloaded = TRUE, !.result = "null"]

\* the then-callbacks of getExtensions(true): getReloadMessage reads
\* this.extension.identifier, then the prompt, then the reload
ReloadThenOutcome(a, ok, disabled, installed, accept) ==
  IF ~ok
  THEN [NoRun EXCEPT !.op = "reload.then", !.settled = "rejected", !.result = "rejected"]
  ELSE IF ~Bound(a)
  THEN [NoRun EXCEPT !.op = "reload.then", !.settled = "resolved", !.result = "rejected"]
  ELSE [NoRun EXCEPT !.op = "reload.then", !.settled = "resolved",
                     !.prompt = ReloadMessage(disabled, installed),
                     !.answer = IF accept THEN "accepted" ELSE "declined",
                     !.reloaded = accept, !.result = "null"]

\* a service call in flight: the call, the action object whose callback waits
\* for it, and the extension it was made for
Call(op, by, e) == [op |-> op, by |-> by, extension |-> e]

Remove(q, i) == SubSeq(q, 1, i - 1) \o SubSeq(q, i + 1, Len(q))

\* the uninstall() calls an outcome made, in flight from now on
Started(q, by, outcome) ==
  IF \E rq \in outcome.issued : rq.op = "uninstall"
  THEN Append(q, Call("uninstall", by, (CHOOSE rq \in outcome.issued : TRUE).extension))
  ELSE q

InstallRun ==
  /\ last' = InstallRunOutcome(install)
  /\ UNCHANGED <<host, records, actions, fresh, pending>>

UninstallRun ==
  /\ Len(pending) < MaxPending
  /\ \E accept \in BOOLEAN :
        /\ last' = UninstallRunOutcome(uninstall, accept)
        /\ pending' = Started(pending, "uninstall", last')
  /\ UNCHANGED <<host, records, actions, fresh>>

CombinedRun ==
  /\ Len(pending) < MaxPending
  /\ \E accept \in BOOLEAN :
        /\ last' = CombinedRunOutcome(combined, accept)
        /\ pending' = Started(pending, "combined", last')
  /\ UNCHANGED <<host, records, actions, fresh>>

UninstallThen ==
  \E i \in 1..Len(pending), ok \in BOOLEAN :
     /\ pending[i].op = "uninstall"
     /\ last' = UninstallThenOutcome(IF pending[i].by = "combined"
                                     THEN combined.uninstallAction ELSE uninstall, ok)
     /\ pending' = Remove(pending, i)
     /\ UNCHANGED <<host, records, actions, fresh>>

ReloadRun ==
  /\ Len(pending) < MaxPending
  /\ last' = ReloadRunOutcome
  /\ pending' = Append(pending, Call("getExtensions", "reload", NoExtension))
  /\ UNCHANGED <<host, records, actions, fresh>>

ReloadThen ==
  \E i \in 1..Len(pending), ok \in BOOLEAN, disabled \in BOOLEAN, installed \in BOOLEAN,
     accept \in BOOLEAN :
     /\ pending[i].op = "getExtensions"
     /\ last' = ReloadThenOutcome(reload, ok, disabled, installed, accept)
     /\ pending' = Remove(pending, i)
     /\ UNCHANGED <<host, records, actions, fresh>>

\* ------------------------------------------------- run() of UpdateAllAction
\* extensionsWorkbenchService.local, the list the outdated getter filters
Local == [i \in 1..NumExtensions |-> i]

\* UpdateAllRunRequests mapping over the whole local list
UpdateAllRunRequestsOfLocal(r) == Local

\* this.outdated.map(e => install(e, ...)): the extensions install() is called
\* with, in call order
UpdateAllRunRequests(r) == SelectSeq(Local, LAMBDA e : e \in Outdated(r))

Range(q) == {q[i] : i \in 1..Len(q)}

\* TPromise.join of promises of which those of `open` are unsettled and those
\* of `failed` were rejected
Join(open, failed) ==
  IF open # {} THEN "pending" ELSE IF failed # {} THEN "rejected" ELSE "resolved"

\* a run() of UpdateAllAction in flight: the install() calls it made, the ones
\* not yet completed and the ones that failed
NewJoin(requests) == [requests |-> requests, open |-> Range(requests), failed |-> {}]

\* UpdateAllRunResult with run() returning the promise of its first install()
UpdateAllRunResultOfFirst(j) ==
  Join(j.open \cap {j.requests[1]}, j.failed \cap {j.requests[1]})

\* the promise run() returns: the join of every install() promise
UpdateAllRunResult(j) == Join(j.open, j.failed)

UpdateAllRunOutcome(r) ==
  LET requests == UpdateAllRunRequests(r)
  IN [NoRun EXCEPT !.op = "updateAll.run",
                   !.issued = {Request("install", e) : e \in Range(requests)},
                   !.result = IF requests = <<>> THEN Join({}, {})
                              ELSE UpdateAllRunResult(NewJoin(requests))]

\* run() reads the service, whatever the enabled flag says
UpdateAllRun ==
  /\ Len(joins) < MaxPending
  /\ last' = UpdateAllRunOutcome(records)
  /\ joins' = IF UpdateAllRunRequests(records) = <<>> THEN joins
              ELSE Append(joins, NewJoin(UpdateAllRunRequests(records)))
  /\ UNCHANGED <<records, actions, fresh, pending, widget, details, workbench, disposed>>

\* one install() call of a run completes; the run's promise settles with it
\* or stays pending
InstallThen ==
  \E i \in 1..Len(joins), ok \in BOOLEAN :
    \E e \in joins[i].open :
      LET j == [joins[i] EXCEPT !.open = @ \ {e},
                                !.failed = IF ok THEN @ ELSE @ \cup {e}]
      IN /\ IF UpdateAllRunResult(j) = "pending"
            THEN /\ joins' = [joins EXCEPT ![i] = j]
                 /\ last' = [NoRun EXCEPT !.op = "install.then"]
            ELSE /\ joins' = Remove(joins, i)
                 /\ last' = [NoRun EXCEPT !.op = "updateAll.then",
                                          !.settled = UpdateAllRunResult(j),
                                          !.outstanding = j.open]
         /\ UNCHANGED <<records, actions, fresh, pending, widget, details, workbench, disposed>>

\* ------------------------------------------- the search-navigation actions
ShowActions == {"ShowInstalledExtensionsAction", "ShowDisabledExtensionsAction",
                "ShowOutdatedExtensionsAction", "ShowPopularExtensionsAction",
                "ShowRecommendedExtensionsAction",
                "ShowWorkspaceRecommendedExtensionsAction"}

\* the literal each run() hands to viewlet.search
SearchQuery(a) ==
  CASE a = "ShowInstalledExtensionsAction" -> ""
    [] a = "ShowDisabledExtensionsAction" -> "@disabled "
    [] a = "ShowOutdatedExtensionsAction" -> "@outdated "
    [] a = "ShowPopularExtensionsAction" -> "@sort:installs "
    [] a = "ShowRecommendedExtensionsAction" -> "@recommended "
    [] a = "ShowWorkspaceRecommendedExtensionsAction" -> "@recommended:workspace "

\* run(): viewletService.openViewlet(VIEWLET_ID, true), nothing else yet
ShowRunOutcome(a) ==
  [NoRun EXCEPT !.op = "show.run", !.action = a,
                !.issued = {Request("openViewlet", NoExtension)}, !.result = "pending"]

\* ShowThenOutcome searching and focusing whatever the outcome of openViewlet
ShowThenOutcomeIgnoresFailure(a, ok) ==
  [NoRun EXCEPT !.op = "show.then", !.action = a,
                !.settled = IF ok THEN "resolved" ELSE "rejected",
                !.result = IF ok THEN "resolved" ELSE "rejected",
                !.viewlet = <<(<<"search", SearchQuery(a)>>), (<<"focus">>)>>]

\* the then-callbacks of openViewlet: they run only when it succeeded
ShowThenOutcome(a, ok) ==
  IF ~ok
  THEN [NoRun EXCEPT !.op = "show.then", !.action = a, !.settled = "rejected",
                     !.result = "rejected"]
  ELSE [NoRun EXCEPT !.op = "show.then", !.action = a, !.settled = "resolved",
                     !.result = "resolved",
                     !.viewlet = <<(<<"search", SearchQuery(a)>>), (<<"focus">>)>>]

ShowRun ==
  /\ Len(pending) < MaxPending
  /\ \E a \in ShowActions :
        /\ last' = ShowRunOutcome(a)
        /\ pending' = Append(pending, Call("openViewlet", a, NoExtension))
  /\ UNCHANGED <<host, records, actions, fresh>>

ShowThen ==
  \E i \in 1..Len(pending), ok \in BOOLEAN :
     /\ pending[i].op = "openViewlet"
     /\ last' = ShowThenOutcome(pending[i].by, ok)
     /\ pending' = Remove(pending, i)
     /\ UNCHANGED <<host, records, actions, fresh>>

\* ------------------------- ConfigureWorkspaceRecommendedExtensionsAction
NoWorkspaceMessage ==
  [text |-> "ConfigureWorkspaceRecommendations.noWorkspace", extension |-> NoExtension]

\* the Error the error callback of openExtensionsFile wraps a failure in
OpenExtensionsFileFailed == [text |-> "OpenExtensionsFile.failed", cause |-> "updateContent"]

\* openEditor({resource, options: {forceOpen: true, pinned}})
OpenEditor(pinned) ==
  [op |-> "openEditor", by |-> "configure", extension |-> NoExtension,
   options |-> [forceOpen |-> TRUE, pinned |-> pinned]]

\* What the workbench does with the run() of an action that ends rejected: it
\* shows the error to the user.
Surfaced(outcome) ==
  IF outcome.result = "rejected" THEN [outcome EXCEPT !.message = outcome.error] ELSE outcome

\* run(): without a workspace a message and nothing else, with one the read of
\* .vscode/extensions.json
ConfigureRunOutcome(ws) ==
  IF ~ws
  THEN [NoRun EXCEPT !.op = "configure.run", !.message = {NoWorkspaceMessage},
                     !.result = "resolved"]
  ELSE [NoRun EXCEPT !.op = "configure.run",
                     !.issued = {Request("resolveContent", NoExtension)},
                     !.result = "pending"]

\* ConfigureReadThenOutcome writing the template whatever the outcome of the read
ConfigureReadThenOutcomeAlwaysWrites(ok) ==
  [NoRun EXCEPT !.op = "configure.readThen",
                !.settled = IF ok THEN "resolved" ELSE "rejected",
                !.issued = {Request("updateContent", NoExtension)},
                !.content = "ExtensionsConfigurationInitialContent",
                !.result = "pending"]

\* the callbacks of resolveContent: the file read is opened unpinned, a failed
\* read makes the file be written with the initial content
ConfigureReadThenOutcome(ok) ==
  IF ok
  THEN [NoRun EXCEPT !.op = "configure.readThen", !.settled = "resolved",
                     !.issued = {Request("openEditor", NoExtension)},
                     !.opened = {OpenEditor(FALSE).options},
                     !.result = "pending"]
  ELSE [NoRun EXCEPT !.op = "configure.readThen", !.settled = "rejected",
                     !.issued = {Request("updateContent", NoExtension)},
                     !.content = "ExtensionsConfigurationInitialContent",
                     !.result = "pending"]

\* ConfigureWriteThenOutcome writing again after a failed write
ConfigureWriteThenOutcomeRetries(ok) ==
  IF ok
  THEN [NoRun EXCEPT !.op = "configure.writeThen", !.settled = "resolved",
                     !.issued = {Request("openEditor", NoExtension)},
                     !.opened = {OpenEditor(TRUE).options},
                     !.result = "pending"]
  ELSE [NoRun EXCEPT !.op = "configure.writeThen", !.settled = "rejected",
                     !.issued = {Request("updateContent", NoExtension)},
                     !.content = "ExtensionsConfigurationInitialContent",
                     !.result = "pending"]

\* the callbacks of updateContent: the file created is opened pinned, a failed
\* write ends run() with the wrapped error
ConfigureWriteThenOutcome(ok) ==
  IF ok
  THEN [NoRun EXCEPT !.op = "configure.writeThen", !.settled = "resolved",
                     !.issued = {Request("openEditor", NoExtension)},
                     !.opened = {OpenEditor(TRUE).options},
                     !.result = "pending"]
  ELSE [NoRun EXCEPT !.op = "configure.writeThen", !.settled = "rejected",
                     !.error = {OpenExtensionsFileFailed},
                     !.result = "rejected"]

\* the calls an outcome of the configure action made, in flight from now on
ConfigureStarted(q, outcome) ==
  IF Request("resolveContent", NoExtension) \in outcome.issued
  THEN Append(q, Call("resolveContent", "configure", NoExtension))
  ELSE IF Request("updateContent", NoExtension) \in outcome.issued
  THEN Append(q, Call("updateContent", "configure", NoExtension))
  ELSE IF Request("openEditor", NoExtension) \in outcome.issued
  THEN Append(q, OpenEditor((CHOOSE o \in outcome.opened : TRUE).pinned))
  ELSE q

ConfigureRun ==
  /\ Len(pending) < MaxPending
  /\ last' = Surfaced(ConfigureRunOutcome(workspace))
  /\ pending' = ConfigureStarted(pending, last')
  /\ UNCHANGED <<host, records, actions, fresh>>

\* resolveContent completes; it cannot succeed on a file that is not there
ConfigureReadThen ==
  \E i \in 1..Len(pending), ok \in BOOLEAN :
     /\ pending[i].op = "resolveContent"
     /\ ok => file # "absent"
     /\ last' = Surfaced(ConfigureReadThenOutcome(ok))
     /\ pending' = ConfigureStarted(Remove(pending, i), last')
     /\ UNCHANGED <<host, records, actions, fresh>>

\* updateContent completes; when it succeeds the file holds the initial content
ConfigureWriteThen ==
  \E i \in 1..Len(pending), ok \in BOOLEAN :
     /\ pending[i].op = "updateContent"
     /\ last' = Surfaced(ConfigureWriteThenOutcome(ok))
     /\ pending' = ConfigureStarted(Remove(pending, i), last')
     /\ file' = IF ok THEN "template" ELSE file
     /\ UNCHANGED <<records, actions, fresh, joins, widget, details, workspace, editor,
                    changeSort, navigation, disposed>>

\* openEditor completes and run() with it; no callback of this code runs
ConfigureEditorThen ==
  \E i \in 1..Len(pending), ok \in BOOLEAN :
     /\ pending[i].op = "openEditor"
     /\ last' = Surfaced([NoRun EXCEPT !.op = "configure.editorThen",
                                       !.settled = IF ok THEN "resolved" ELSE "rejected",
                                       !.error = IF ok THEN {}
                                                 ELSE {[text |-> "openEditor", cause |-> "openEditor"]},
                                       !.result = IF ok THEN "resolved" ELSE "rejected"])
     /\ pending' = Remove(pending, i)
     /\ editor' = IF ok THEN {pending[i].options} ELSE editor
     /\ UNCHANGED <<records, actions, fresh, joins, widget, details, workspace, file,
                    changeSort, navigation, disposed>>

\* -------------------------------------------------------- ChangeSortAction
\* the value of a constructor argument that was not given
Undefined == "undefined"

SortBys == {Undefined, "installs", "rating", "name"}

SortOrders == {Undefined, "asc", "desc"}

\* a Query: the text searched for, and the sort criterion and order, '' if none
Query(value, sortBy, sortOrder) == [value |-> value, sortBy |-> sortBy, sortOrder |-> sortOrder]

\* what the search box can hold, as Query.parse reads it; Query.parse('') is
\* the Query of three empty strings
Searches == {Query(value, sortBy, sortOrder) :
               value \in {"", "git"}, sortBy \in {"", "installs"}, sortOrder \in {"", "desc"}}

\* a || b on strings
Or(a, b) == IF a \in {Undefined, ""} THEN b ELSE a

\* Query.isValid: an order needs a criterion
IsValid(q) == q.sortOrder = "" \/ q.sortBy # ""

\* ChangeSortThrows rejecting every argument pair with an argument missing
ChangeSortThrowsOnEither(sortBy, sortOrder) == sortBy = Undefined \/ sortOrder = Undefined

\* the constructor's test of its arguments
ChangeSortThrows(sortBy, sortOrder) == sortBy = Undefined /\ sortOrder = Undefined

\* the object the constructor leaves when it does not throw
NewChangeSortAction(sortBy, sortOrder) ==
  [constructed |-> TRUE, sortBy |-> sortBy, sortOrder |-> sortOrder,
   query |-> Query("", "", ""), enabled |-> FALSE, subscribed |-> TRUE]

ChangeSortOnSearchChange(a, query) ==
  LET q == Query(query.value, Or(a.sortBy, query.sortBy), Or(a.sortOrder, query.sortOrder))
  IN [a EXCEPT !.query = q,
               !.enabled = query # Query("", "", "") /\ IsValid(q) /\ q # query]

\* new ChangeSortAction(id, label, onSearchChange, sortBy, sortOrder)
ChangeSortNew ==
  \E sortBy \in SortBys, sortOrder \in SortOrders :
     /\ IF ChangeSortThrows(sortBy, sortOrder)
        THEN /\ last' = [NoRun EXCEPT !.op = "changeSort.new", !.result = "threw",
                                      !.arguments = <<sortBy, sortOrder>>]
             /\ changeSort' = changeSort
        ELSE /\ last' = [NoRun EXCEPT !.op = "changeSort.new", !.result = "constructed",
                                      !.arguments = <<sortBy, sortOrder>>]
             /\ changeSort' = NewChangeSortAction(sortBy, sortOrder)
     /\ UNCHANGED <<records, actions, fresh, pending, joins, widget, details, workspace,
                    file, editor, navigation, disposed>>

\* ClearExtensionsInputAction.onSearchChange: this.enabled = !!value
ClearOnSearchChange(query) == query # Query("", "", "")

\* the search box changes: ClearExtensionsInputAction follows, and the
\* ChangeSortAction if one is constructed
SearchChange ==
  \E query \in Searches :
     /\ changeSort' = IF changeSort.constructed
                      THEN ChangeSortOnSearchChange(changeSort, query)
                      ELSE changeSort
     /\ navigation' = [navigation EXCEPT
                         !["ClearExtensionsInputAction"] = ClearOnSearchChange(query)]
     /\ last' = [NoRun EXCEPT !.op = "searchChange", !.arguments = <<query>>]
     /\ UNCHANGED <<records, actions, fresh, pending, joins, widget, details, workspace,
                    file, editor, disposed>>

\* ------------------------------------------------- the widgets' operations
\* The gallery or the runtime service changes one detail of one extension; the
\* onChange event follows.
DetailChange(e, f, v) ==
  /\ details[e][f] # v
  /\ details' = [details EXCEPT ![e][f] = v]
  /\ fresh' = {}
  /\ last' = NoRun
  /\ UNCHANGED <<records, actions, pending, joins, widget, workbench, disposed>>

MutateDisplayName == \E e \in Extensions, v \in DisplayNames : DetailChange(e, "displayName", v)

MutateInstallCount ==
  \E e \in Extensions, v \in {Null} \cup {Some(n) : n \in InstallCounts} :
     DetailChange(e, "installCount", v)

MutateRating ==
  \E e \in Extensions, v \in {Null} \cup {Some(x) : x \in Ratings} :
     DetailChange(e, "rating", v)

MutateRatingCount == \E e \in Extensions, v \in RatingCounts : DetailChange(e, "ratingCount", v)

MutateDisabledInWorkspace ==
  \E e \in Extensions, v \in BOOLEAN : DetailChange(e, "disabledInWorkspace", v)

\* set extension(extension): stores it and renders, disposed or not
RebindWidget ==
  \E e \in Targets :
     /\ widget' = Render([widget EXCEPT !.extension = e], records, details)
     /\ fresh' = fresh \cup {"widget"}
     /\ last' = NoRun
     /\ UNCHANGED <<records, actions, pending, joins, details, workbench, disposed>>

\* dispose(): the onChange listener is gone
DisposeWidget ==
  /\ ~widget.disposed
  /\ widget' = [widget EXCEPT !.disposed = TRUE]
  /\ last' = NoRun
  /\ UNCHANGED <<records, actions, fresh, pending, joins, details, workbench, disposed>>

\* dispose() of an action: super.dispose(), and in the classes that override
\* it the release of the listeners in disposables
DisposeAction ==
  \E n \in ActionNames \ disposed :
     /\ Cardinality(disposed) < MaxDisposed
     /\ disposed' = disposed \cup {n}
     /\ last' = NoRun
     /\ UNCHANGED <<records, actions, fresh, pending, joins, widget, details, workbench>>

\* ------------------------------------------------------------------ claims
Triple(a) == <<a.enabled, a.label, a.class>>

\* a newly constructed child action bound to the composite's extension
InstallFor(e) == InstallUpdate([NewAction(InstallLabel, InstallClass) EXCEPT !.extension = e], records)
UninstallFor(e) == UninstallUpdate([NewAction(UninstallLabel, UninstallClass) EXCEPT !.extension = e], records)

\* C1: once the composite's rebind or the change notification has run, its
\* (enabled, label, class) is that of the first enabled child, InstallAction
\* before UninstallAction, computed for the bound extension; with neither
\* child enabled the composite is disabled.
C1_CombinedFollowsFirstEnabledChild ==
  "combined" \in fresh =>
     IF InstallFor(combined.extension).enabled
     THEN Triple(combined) = Triple(InstallFor(combined.extension))
     ELSE IF UninstallFor(combined.extension).enabled
     THEN Triple(combined) = Triple(UninstallFor(combined.extension))
     ELSE ~combined.enabled

C1_Witness ==
  /\ "combined" \in fresh
  /\ Bound(combined)
  /\ UninstallFor(combined.extension).enabled
  /\ Triple(combined) = <<TRUE, UninstallLabel, UninstallClass>>

\* C2: the triple an action shows after a bind depends on the bound snapshot
\* only: an action that reached the snapshot through earlier rebinds and
\* notifications shows what a newly constructed action bound to it shows.
C2_TripleIsFunctionOfSnapshot ==
  /\ "install" \in fresh => Triple(install) = Triple(InstallFor(install.extension))
  /\ "uninstall" \in fresh => Triple(uninstall) = Triple(UninstallFor(uninstall.extension))
  /\ "update" \in fresh =>
        Triple(update) = Triple(UpdateUpdate([NewAction(UpdateLabel, UpdateDisabledClass)
                                                EXCEPT !.extension = update.extension], records))
  /\ "enable" \in fresh =>
        Triple(enable) = Triple(EnableUpdate([NewAction(EnableLabel, EnableDisabledClass)
                                                EXCEPT !.extension = enable.extension], records))
  /\ "disable" \in fresh =>
        Triple(disable) = Triple(DisableUpdate([NewAction(DisableLabel, DisableDisabledClass)
                                                  EXCEPT !.extension = disable.extension], records))
  /\ "reload" \in fresh =>
        Triple(reload) = Triple(ReloadUpdate([NewAction(ReloadLabel, ReloadDisabledClass)
                                                EXCEPT !.extension = reload.extension], records))
  /\ "combined" \in fresh =>
        /\ Triple(CombinedSetExtension(combined, combined.extension, records)) = Triple(combined)
        /\ Triple(combined)
             = Triple(CombinedSetExtension(NewCombined(records), combined.extension, records))

\* the record of the extension an action is bound to
Snapshot(a) == records[a.extension]

\* C3 as stated: once its rebind or the change notification has run,
\* InstallAction is enabled iff the bound extension is installable and its
\* state is Uninstalled.
C3_InstallEnabledIffInstallableUninstalled ==
  "install" \in fresh =>
     (install.enabled <=> /\ Bound(install)
                          /\ Snapshot(install).canInstall
                          /\ Snapshot(install).state = "Uninstalled")

\* C3 amended: ... iff the bound extension is not a System extension, is
\* installable and its state is Uninstalled.
C3_InstallEnabledIffNotSystemInstallableUninstalled ==
  "install" \in fresh =>
     (install.enabled <=> /\ Bound(install)
                          /\ Snapshot(install).type # "System"
                          /\ Snapshot(install).canInstall
                          /\ Snapshot(install).state = "Uninstalled")

C3_Witness ==
  /\ "install" \in fresh
  /\ Bound(install)
  /\ install.enabled
  /\ Snapshot(install).state = "Uninstalled"
  /\ \E e \in Extensions : e # install.extension /\ records[e].state # "Uninstalled"

\* C4: once its rebind or the change notification has run, UninstallAction is
\* enabled iff an extension is bound, its type is User and its state is
\* Installed, Disabled or NeedsReload.
C4_UninstallEnabledIffUserInstalled ==
  "uninstall" \in fresh =>
     (uninstall.enabled <=> /\ Bound(uninstall)
                            /\ Snapshot(uninstall).type = "User"
                            /\ Snapshot(uninstall).state \in {"Installed", "Disabled", "NeedsReload"})

C4_Witness ==
  /\ "uninstall" \in fresh
  /\ Bound(uninstall)
  /\ uninstall.enabled
  /\ Snapshot(uninstall).state = "NeedsReload"

\* C5 as stated: once its rebind or the change notification has run,
\* UpdateAction is enabled iff the bound extension is installable, its state
\* is Installed or Disabled, and it is outdated.
C5_UpdateEnabledIffInstallableInstalledOutdated ==
  "update" \in fresh =>
     (update.enabled <=> /\ Bound(update)
                         /\ Snapshot(update).canInstall
                         /\ Snapshot(update).state \in {"Installed", "Disabled"}
                         /\ Snapshot(update).outdated)

\* C5 amended: ... iff the bound extension has type User, is installable, its
\* state is Installed or Disabled, and it is outdated.
C5_UpdateEnabledIffUserInstallableInstalledOutdated ==
  "update" \in fresh =>
     (update.enabled <=> /\ Bound(update)
                         /\ Snapshot(update).type = "User"
                         /\ Snapshot(update).canInstall
                         /\ Snapshot(update).state \in {"Installed", "Disabled"}
                         /\ Snapshot(update).outdated)

C5_Witness ==
  /\ "update" \in fresh
  /\ Bound(update)
  /\ update.enabled
  /\ Snapshot(update).state = "Disabled"

\* C6: once its rebind or the change notification has run, EnableAction is
\* enabled iff the bound extension's state is Disabled and DisableAction iff
\* it is Installed; bound to the same extension, the two are never enabled
\* together.
C6_EnableDisableMirror ==
  /\ "enable" \in fresh =>
        (enable.enabled <=> Bound(enable) /\ Snapshot(enable).state = "Disabled")
  /\ "disable" \in fresh =>
        (disable.enabled <=> Bound(disable) /\ Snapshot(disable).state = "Installed")
  /\ ({"enable", "disable"} \subseteq fresh /\ enable.extension = disable.extension) =>
        ~(enable.enabled /\ disable.enabled)

C6_Witness ==
  /\ {"enable", "disable"} \subseteq fresh
  /\ Bound(enable)
  /\ enable.extension = disable.extension
  /\ enable.enabled
  /\ ~disable.enabled

\* C10: after construction and after every change notification,
\* UpdateAllAction is enabled iff some extension of the local collection is
\* User-type, installable, Installed or Disabled, and outdated.
C10_UpdateAllEnabledIffCandidate ==
  "updateAll" \in fresh =>
     (updateAll.enabled <=>
        \E e \in Extensions : /\ records[e].type = "User"
                              /\ records[e].canInstall
                              /\ records[e].state \in {"Installed", "Disabled"}
                              /\ records[e].outdated)

C10_Witness ==
  /\ "updateAll" \in fresh
  /\ updateAll.enabled
  /\ last.op = "none"
  /\ \E e \in Extensions : records[e].type = "System" /\ records[e].outdated
  /\ Cardinality(Outdated(records)) = 1

\* C7: CombinedInstallAction.run() calls InstallAction.run() when the install
\* child is enabled, otherwise UninstallAction.run() when the uninstall child
\* is enabled; with neither enabled it makes no request to the service, shows
\* no prompt and completes with null.
C7_CombinedRunDelegates ==
  [][last'.op = "combined.run" =>
       IF combined.installAction.enabled
       THEN /\ last'.delegate = "installAction"
            /\ last'.issued = {Request("install", combined.installAction.extension)}
            /\ pending' = pending
       ELSE IF combined.uninstallAction.enabled
       THEN /\ last'.delegate = "uninstallAction"
            /\ last'.prompt = "deleteSure"
            /\ last'.issued \subseteq {Request("uninstall", combined.uninstallAction.extension)}
       ELSE /\ last'.delegate = "none"
            /\ last'.prompt = "none"
            /\ last'.issued = {}
            /\ last'.result = "null"
            /\ pending' = pending]_vars

C7_Witness ==
  /\ last.op = "combined.run"
  /\ Bound(combined)
  /\ ~combined.installAction.enabled
  /\ ~combined.uninstallAction.enabled
  /\ last.result = "null"

\* C8: UninstallAction.run() makes a request to the service only after the
\* user accepted the confirmation; when the user declines, no request is made,
\* no call is left in flight, no message is shown, and run() completes with
\* null.
C8_UninstallDeclinedIsNoOp ==
  [][last'.op = "uninstall.run" =>
       /\ last'.issued # {} => last'.answer = "accepted"
       /\ last'.answer = "declined" =>
            /\ last'.prompt = "deleteSure"
            /\ last'.issued = {}
            /\ last'.message = {}
            /\ last'.result = "null"
            /\ pending' = pending]_vars

C8_Witness ==
  /\ last.op = "uninstall.run"
  /\ last.answer = "declined"
  /\ Bound(uninstall)
  /\ Len(pending) > 0

\* C9: ReloadAction.run() reloads the window only in the callback of a
\* resolved getExtensions() and only when the user accepted the prompt shown
\* there; run() itself shows no prompt; a declined prompt reloads nothing and
\* run() completes with null.
C9_ReloadOnlyAfterAcceptedPrompt ==
  /\ last.reloaded =>
       last.op = "reload.then" /\ last.settled = "resolved" /\ last.answer = "accepted"
  /\ last.op = "reload.run" => last.prompt = "none" /\ ~last.reloaded
  /\ (last.op = "reload.then" /\ last.prompt # "none") => last.settled = "resolved"
  /\ (last.op = "reload.then" /\ last.answer = "declined") =>
       ~last.reloaded /\ last.result = "null"

C9_Witness ==
  /\ last.op = "reload.then"
  /\ last.answer = "declined"
  /\ last.prompt = "postDisableMessage"
  /\ ~last.reloaded

\* how many of the calls of q are made with extension e
Calls(q, e) == Cardinality({i \in 1..Len(q) : q[i] = e})

\* a User extension that can be installed, is Installed or Disabled, and is
\* outdated
Candidate(e) ==
  /\ records[e].type = "User"
  /\ records[e].canInstall
  /\ records[e].state \in {"Installed", "Disabled"}
  /\ records[e].outdated

\* C11: run() of UpdateAllAction calls install() exactly once for every
\* extension that is a candidate when run() is called and for no other one,
\* all of the calls being made before any of them completes or fails.
C11_UpdateAllRequestsEveryCandidateOnce ==
  [][last'.op = "updateAll.run" =>
       /\ last'.issued = {Request("install", e) : e \in {c \in Extensions : Candidate(c)}}
       /\ IF \E e \in Extensions : Candidate(e)
          THEN /\ Len(joins') = Len(joins) + 1
               /\ SubSeq(joins', 1, Len(joins)) = joins
               /\ \A e \in Extensions :
                     Calls(joins'[Len(joins')].requests, e) = IF Candidate(e) THEN 1 ELSE 0
               /\ joins'[Len(joins')].open = {e \in Extensions : Candidate(e)}
               /\ joins'[Len(joins')].failed = {}
          ELSE joins' = joins]_vars

\* run() called while one extension is a candidate and another is not, and
\* while the request of an earlier run() is still in flight
C11_Witness ==
  /\ last.op = "updateAll.run"
  /\ \E e \in Extensions : Request("install", e) \in last.issued
  /\ \E e \in Extensions : Request("install", e) \notin last.issued
  /\ Len(joins) > 1

\* C12: the promise run() of UpdateAllAction returns settles only when every
\* install() call of that run has completed, it is rejected exactly when one
\* of them failed, and the completion of an install() makes this code issue
\* no request, an uninstall in particular.
C12_UpdateAllSettlesAfterEveryRequest ==
  /\ last.op = "updateAll.then" => last.outstanding = {} /\ last.settled # "pending"
  /\ last.op = "updateAll.run" /\ last.issued # {} => last.result = "pending"
  /\ last.op \in {"install.then", "updateAll.then"} => last.issued = {}
  /\ \A i \in 1..Len(joins) :
        /\ joins[i].open # {}
        /\ joins[i].open \cup joins[i].failed \subseteq Range(joins[i].requests)

\* a request of a run has failed, another one of the same run is still in
\* flight, and the run has not settled
C12_Witness ==
  \E i \in 1..Len(joins) : joins[i].failed # {} /\ joins[i].open # {}

\* C13: a confirmed run() of UninstallAction calls uninstall() once, for the
\* bound extension, and shows nothing; the "was successfully uninstalled"
\* message with its restart choice is shown only by the completion of that
\* call, and only when the call succeeded: a failed uninstall shows nothing.
C13_UninstallNotifiesOnlyAfterSuccess ==
  [][/\ last'.op = "uninstall.run" =>
          /\ last'.message = {}
          /\ last'.answer = "accepted" =>
                /\ last'.issued = {Request("uninstall", uninstall.extension)}
                /\ pending' = Append(pending, Call("uninstall", "uninstall",
                                                   uninstall.extension))
          /\ last'.answer # "accepted" => last'.issued = {} /\ pending' = pending
     /\ last'.op = "uninstall.then" =>
          /\ Len(pending') = Len(pending) - 1
          /\ last'.issued = {}
          /\ last'.message # {} =>
                /\ last'.settled = "resolved"
                /\ \A msg \in last'.message : msg.text = "postUninstallMessage"
          /\ last'.settled = "rejected" => last'.message = {}]_vars

\* the uninstall request of a confirmed run() succeeded and the message is shown
C13_Witness ==
  /\ last.op = "uninstall.then"
  /\ last.settled = "resolved"
  /\ last.message # {}

\* C14: run() of a search-navigation action only asks for the extensions
\* viewlet to be opened; when that open completes successfully, and only then,
\* the action calls search once with its own fixed query and then focus once;
\* when the open fails it calls neither, and no other step touches the viewlet.
C14_ShowSearchesAfterOpen ==
  [][LET query == [a \in ShowActions |->
                     CASE a = "ShowInstalledExtensionsAction" -> ""
                       [] a = "ShowDisabledExtensionsAction" -> "@disabled "
                       [] a = "ShowOutdatedExtensionsAction" -> "@outdated "
                       [] a = "ShowPopularExtensionsAction" -> "@sort:installs "
                       [] a = "ShowRecommendedExtensionsAction" -> "@recommended "
                       [] a = "ShowWorkspaceRecommendedExtensionsAction" ->
                            "@recommended:workspace "]
     IN /\ last'.op = "show.run" =>
             /\ last'.action \in ShowActions
             /\ last'.viewlet = <<>>
             /\ last'.issued = {Request("openViewlet", NoExtension)}
             /\ pending' = Append(pending, Call("openViewlet", last'.action, NoExtension))
        /\ last'.op = "show.then" =>
             /\ \E i \in 1..Len(pending) :
                   /\ pending[i] = Call("openViewlet", last'.action, NoExtension)
                   /\ pending' = Remove(pending, i)
             /\ last'.issued = {}
             /\ last'.viewlet = IF last'.settled = "resolved"
                                THEN <<(<<"search", query[last'.action]>>), (<<"focus">>)>>
                                ELSE <<>>
        /\ last'.op \notin {"show.run", "show.then"} => last'.viewlet = <<>>]_vars

\* the viewlet opened for one action while the open asked by another is still
\* in flight: the first one searched and focused
C14_Witness ==
  /\ last.op = "show.then"
  /\ last.settled = "resolved"
  /\ Len(last.viewlet) = 2
  /\ \E i \in 1..Len(pending) : pending[i].op = "openViewlet" /\ pending[i].by # last.action

\* what the widget's render() computes from the record it is bound to now
Presentation(w) ==
  CASE w.kind = "Label" -> LabelRender(w, details)
    [] w.kind = "StatusWidget" -> StatusWidgetRender(w, records, details)
    [] w.kind = "InstallWidget" -> InstallWidgetRender(w, details)
    [] w.kind = "RatingsWidget" -> RatingsWidgetRender(w, details)

\* C15: after every bind, and after every change notification a widget that
\* is not disposed receives, the widget shows what render() computes from the
\* record bound now; a widget bound to nothing shows nothing, and so does one
\* whose record holds null for the install count or the rating it displays.
C15_WidgetShowsBoundRecord ==
  /\ "widget" \in fresh => widget.display = Presentation(widget)
  /\ ~Bound(widget) => widget.display = IF widget.kind = "Label" THEN <<"">> ELSE <<>>
  /\ /\ "widget" \in fresh
     /\ Bound(widget)
     /\ \/ widget.kind = "InstallWidget" /\ details[widget.extension].installCount = Null
        \/ widget.kind = "RatingsWidget" /\ details[widget.extension].rating = Null
     => widget.display = <<>>

\* a widget that was notified of a change of the record it is bound to
C15_Witness ==
  /\ "widget" \in fresh
  /\ ~widget.disposed
  /\ Bound(widget)
  /\ details[widget.extension] # NoDetail
  /\ widget.display # <<>>
  /\ fresh = Listeners(widget)

\* C16: an InstallWidget bound to a record with a null install count shows
\* nothing; otherwise it shows the count, as floor(n / 1000000) "M" for the
\* millions and floor(n / 1000) "K" for the thousands in compact mode, and as
\* the plain decimal number below one thousand and in non-compact mode.
C16_InstallCountFormat ==
  widget.kind = "InstallWidget" /\ "widget" \in fresh /\ Bound(widget) =>
    LET installCount == details[widget.extension].installCount
        n == installCount[1]
    IN IF installCount = Null THEN widget.display = <<>>
       ELSE /\ Len(widget.display) = 2
            /\ widget.display[2] =
                 IF widget.small /\ n >= 1000000 THEN ToString(n \div 1000000) \o "M"
                 ELSE IF widget.small /\ n >= 1000 THEN ToString(n \div 1000) \o "K"
                 ELSE ToString(n)

\* C17: a RatingsWidget bound to a record with a null rating shows nothing,
\* and so does a small one bound to a record with no ratings; a full one
\* shows five stars: with r the multiple of 0.5 nearest to the rating, floor(r)
\* full stars, then a half star if r is not a whole number, then empty stars.
C17_RatingStars ==
  widget.kind = "RatingsWidget" /\ "widget" \in fresh /\ Bound(widget) =>
    LET rating == details[widget.extension].rating
    IN IF rating = Null THEN widget.display = <<>>
       ELSE IF widget.small
       THEN details[widget.extension].ratingCount = 0 => widget.display = <<>>
       ELSE /\ Len(widget.display) = 5
            /\ \E half \in 0..10 :
                  /\ 50 * half <= rating[1] + 25
                  /\ rating[1] <= 50 * half + 25
                  /\ \A i \in 1..5 :
                        widget.display[i] =
                          IF i <= half \div 2 THEN "full"
                          ELSE IF i = half \div 2 + 1 /\ half % 2 = 1 THEN "half"
                          ELSE "empty"

\* a full RatingsWidget showing a rating of 4.3
C17_Witness ==
  /\ widget.kind = "RatingsWidget"
  /\ ~widget.small
  /\ "widget" \in fresh
  /\ Bound(widget)
  /\ details[widget.extension].rating = Some(430)
  /\ widget.display = <<"full", "full", "full", "full", "half">>

\* C18: in a workspace, run() of the configure action only starts the read of
\* the recommendations file. A successful read writes nothing and opens the
\* editor unpinned; a failed read makes one write, of the initial content, and
\* opens no editor; a successful write opens the editor pinned and writes
\* nothing more. No other step opens the editor or writes the file.
C18_ConfigureReadsThenWritesThenOpens ==
  [][/\ last'.op = "configure.run" /\ workspace =>
          /\ pending' = Append(pending, Call("resolveContent", "configure", NoExtension))
          /\ last'.opened = {} /\ last'.content = "none" /\ file' = file
     /\ last'.op = "configure.readThen" /\ last'.settled = "resolved" =>
          /\ last'.content = "none"
          /\ file' = file
          /\ last'.opened = {[forceOpen |-> TRUE, pinned |-> FALSE]}
          /\ \A i \in 1..Len(pending') : pending'[i].op # "updateContent" \/
                \E k \in 1..Len(pending) : pending[k] = pending'[i]
     /\ last'.op = "configure.readThen" /\ last'.settled = "rejected" =>
          /\ last'.content = "ExtensionsConfigurationInitialContent"
          /\ last'.issued = {Request("updateContent", NoExtension)}
          /\ last'.opened = {}
          /\ Len(pending') = Len(pending)
          /\ pending'[Len(pending')] = Call("updateContent", "configure", NoExtension)
     /\ last'.op = "configure.writeThen" /\ last'.settled = "resolved" =>
          /\ last'.content = "none"
          /\ file' = "template"
          /\ last'.opened = {[forceOpen |-> TRUE, pinned |-> TRUE]}
     /\ last'.op \notin {"configure.readThen", "configure.writeThen"} =>
          /\ last'.opened = {}
          /\ last'.content = "none"
     /\ last'.opened # {} => last'.settled = "resolved"
     /\ editor' # editor => \E i \in 1..Len(pending) :
                               pending[i].op = "openEditor" /\ editor' = {pending[i].options}]_vars

\* the read failed, the write succeeded, and the editor is opened pinned
C18_Witness ==
  /\ last.op = "configure.writeThen"
  /\ last.settled = "resolved"
  /\ last.opened = {[forceOpen |-> TRUE, pinned |-> TRUE]}
  /\ file = "template"

C20_ChangeSortThrowsWithoutArguments ==
  [][last'.op = "changeSort.new" =>
       IF last'.arguments = <<Undefined, Undefined>>
       THEN /\ last'.result = "threw"
            /\ changeSort' = changeSort
       ELSE /\ last'.result = "constructed"
            /\ changeSort'.constructed
            /\ changeSort'.subscribed
            /\ ~changeSort'.enabled
            /\ <<changeSort'.sortBy, changeSort'.sortOrder>> = last'.arguments]_vars

\* a construction that threw, after an action was constructed and enabled by
\* a search: that one is as it was
C20_Witness ==
  /\ last.op = "changeSort.new"
  /\ last.result = "threw"
  /\ changeSort.constructed
  /\ changeSort.enabled

\* running ConfigureWorkspaceRecommendedExtensionsAction without a workspace
\* shows the message and reads, writes and opens nothing
ConfigureWithoutWorkspace ==
  last.op = "configure.run" /\ ~workspace =>
     /\ last.message = {NoWorkspaceMessage}
     /\ last.issued = {}
     /\ last.opened = {}
     /\ last.content = "none"
     /\ pending = <<>>
     /\ editor = {}

\* C21 as stated: the two workspace-gated actions are enabled iff a workspace
\* is present, every other navigation or search action is enabled in every
\* state, and running the configure action without a workspace only shows the
\* message.
C21_NavigationAlwaysEnabled ==
  /\ \A a \in WorkspaceGated : navigation[a] = workspace
  /\ \A a \in NavigationActions \ WorkspaceGated : navigation[a]
  /\ changeSort.constructed => changeSort.enabled
  /\ ConfigureWithoutWorkspace

\* C21, amended: the two workspace-gated actions are enabled iff a workspace is
\* present; the show, open-folder and install-from-file actions are enabled
\* in every state; ClearExtensionsInputAction and ChangeSortAction are
\* disabled when constructed and after a search change are enabled only if the
\* search text is not empty, ClearExtensionsInputAction then always; running
\* the configure action without a workspace only shows the message.
C21_NavigationEnabledAsConstructed ==
  /\ \A a \in WorkspaceGated : navigation[a] = workspace
  /\ \A a \in NavigationActions \ (WorkspaceGated \cup {"ClearExtensionsInputAction"}) :
        navigation[a]
  /\ last.op = "changeSort.new" /\ last.result = "constructed" => ~changeSort.enabled
  /\ last.op = "searchChange" =>
        /\ navigation["ClearExtensionsInputAction"] = (last.arguments[1] # Query("", "", ""))
        /\ changeSort.constructed /\ changeSort.enabled => last.arguments[1] # Query("", "", "")
  /\ ConfigureWithoutWorkspace

\* the configure action ran without a workspace, disabled as it is, while
\* ClearExtensionsInputAction is enabled by an earlier search
C21_Witness ==
  /\ ~workspace
  /\ last.op = "configure.run"
  /\ last.message = {NoWorkspaceMessage}
  /\ ~navigation["ConfigureWorkspaceRecommendedExtensionsAction"]
  /\ navigation["ClearExtensionsInputAction"]
  /\ navigation["InstallVSIXAction"]

\* the named action is after the step as it was before
Untouched(n) ==
  CASE n = "install" -> install' = install
    [] n = "uninstall" -> uninstall' = uninstall
    [] n = "update" -> update' = update
    [] n = "enable" -> enable' = enable
    [] n = "disable" -> disable' = disable
    [] n = "reload" -> reload' = reload
    [] n = "combined" -> combined' = combined
    [] n = "updateAll" -> updateAll' = updateAll

\* C22 as stated: once dispose() was called on a widget or on a
\* single-extension action, a change notification runs neither its render nor
\* its update, so what it shows is after the notification what it was before.
C22_DisposedIgnoresNotifications ==
  [][Notify => /\ \A n \in disposed \ {"combined"} : Untouched(n)
               /\ widget.disposed => widget' = widget]_vars

\* C23 as stated: when the uninstall request of a confirmed run() of
\* UninstallAction succeeds, the message shown names the extension the request
\* was made for, and the completion ends without an error, whatever the action
\* was bound to in the meantime.
C23_UninstallNamesRequestedExtension ==
  [][last'.op = "uninstall.then" /\ last'.settled = "resolved" =>
       \E i \in 1..Len(pending) :
          /\ pending[i].op = "uninstall"
          /\ pending' = Remove(pending, i)
          /\ last'.result = "resolved"
          /\ last'.message = {[text |-> "postUninstallMessage",
                               extension |-> pending[i].extension]}]_vars

\* C24: the InstallAction and the UninstallAction the composite holds, always
\* bound to one extension and updated together, are in no state both enabled,
\* so the composite never shows the install child while the uninstall child is
\* enabled too.
C24_InstallAndUninstallNeverBothEnabled ==
  ~(combined.installAction.enabled /\ combined.uninstallAction.enabled)

\* both children updated for an installed user extension: uninstall alone is
\* enabled
C24_Witness ==
  /\ Bound(combined)
  /\ "combined" \in fresh
  /\ combined.installAction.extension = combined.uninstallAction.extension
  /\ records[combined.extension].state = "Installed"
  /\ combined.uninstallAction.enabled
  /\ ~combined.installAction.enabled

\* the class of the action is its enabled class when it is enabled and its
\* disabled class when it is not
ClassFollowsEnabled(a, enabledClass, disabledClass) ==
  a.class = IF a.enabled THEN enabledClass ELSE disabledClass

\* C25: in every state, from their construction on, UpdateAction, EnableAction,
\* DisableAction and ReloadAction each carry the enabled class exactly when
\* enabled and the '... disabled' class exactly when disabled.
C25_ClassFollowsEnabled ==
  /\ ClassFollowsEnabled(update, UpdateEnabledClass, UpdateDisabledClass)
  /\ ClassFollowsEnabled(enable, EnableEnabledClass, EnableDisabledClass)
  /\ ClassFollowsEnabled(disable, DisableEnabledClass, DisableDisabledClass)
  /\ ClassFollowsEnabled(reload, ReloadEnabledClass, ReloadDisabledClass)

\* ReloadAction bound and enabled with its enabled class, the other three
\* disabled with their disabled class
C25_Witness ==
  /\ Bound(reload)
  /\ reload.enabled /\ reload.class = ReloadEnabledClass
  /\ ~update.enabled /\ update.class = UpdateDisabledClass
  /\ ~enable.enabled /\ enable.class = EnableDisabledClass
  /\ ~disable.enabled /\ disable.class = DisableDisabledClass

\* C26: once InstallAction's rebind or the change notification has run, it
\* shows the 'Installing' label and the installing class exactly when an
\* extension is bound that is not a System extension and whose state is
\* Installing, and the 'Install' label and the plain class otherwise; and in
\* every state in which it shows 'Installing' it is disabled.
C26_InstallingShownExactlyWhileInstalling ==
  /\ "install" \in fresh =>
        IF /\ Bound(install)
           /\ records[install.extension].type # "System"
           /\ records[install.extension].state = "Installing"
        THEN install.label = InstallingLabel /\ install.class = InstallingClass
        ELSE install.label = InstallLabel /\ install.class = InstallClass
  /\ install.label = InstallingLabel => ~install.enabled

\* an installable user extension being installed: 'Installing' is shown and
\* the action is disabled
C26_Witness ==
  /\ "install" \in fresh
  /\ Bound(install)
  /\ records[install.extension].state = "Installing"
  /\ records[install.extension].canInstall
  /\ install.label = InstallingLabel
  /\ install.class = InstallingClass
  /\ ~install.enabled

\* the marks and the title StatusWidget's render() leaves for the bound
\* extension, as C27 states them
StatusShown ==
  LET state == records[widget.extension].state
      listed == details[widget.extension].disabledInWorkspace
  IN /\ Len(widget.display) = 2
     /\ widget.display[1] = "extension-status active" <=> state = "Installed"
     /\ widget.display[1] = "extension-status disabled" <=> state = "Disabled"
     /\ widget.display[2] = IF listed THEN "Disabled (Workspace)"
                            ELSE IF state = "Disabled" THEN "Disabled"
                            ELSE IF state = "Installed" THEN "Enabled" ELSE ""

StatusRendered == widget.kind = "StatusWidget" /\ Bound(widget) /\ "widget" \in fresh

\* C27 as stated: a StatusWidget that has rendered a bound extension marks
\* the element 'active' iff the state is Installed and 'disabled' iff it is
\* Disabled; the title is 'Disabled (Workspace)' iff the extension is in the
\* workspace-disabled list, else 'Disabled' iff Disabled, else 'Enabled' iff
\* Installed, else empty; and the title is 'Disabled (Workspace)' only on an
\* element that carries the 'disabled' mark.
C27_WorkspaceTitleOnlyWithDisabledMark ==
  StatusRendered =>
     /\ StatusShown
     /\ widget.display[2] = "Disabled (Workspace)" =>
           widget.display[1] = "extension-status disabled"

\* ------------------------------------------------------- specifications
\* Each specification below is the machine restricted to the operations on one
\* action, with the record fields that action never reads held fixed.

\* The actions read nothing of the workspace and of the widget.
HostIdle == workspace = TRUE /\ file = "absent" /\ widget = NewWidget("Label", FALSE)

\* UpdateAction and UpdateAllAction read every field of the record.
InitRecords == HostIdle /\ Init

\* InstallAction and the composite read state, type and canInstall.
InitStateTypeCanInstall == HostIdle /\ Init /\ \A e \in Extensions : ~records[e].outdated

\* UninstallAction reads state and type.
InitStateType == InitStateTypeCanInstall /\ \A e \in Extensions : records[e].canInstall

\* EnableAction, DisableAction and ReloadAction read the state.
InitState == InitStateType /\ \A e \in Extensions : records[e].type = "User"

NextCombined == MutateState \/ MutateType \/ MutateCanInstall \/ Notify \/ RebindCombined

SpecCombined == InitStateTypeCanInstall /\ [][NextCombined]_vars

NextInstall == MutateState \/ MutateType \/ MutateCanInstall \/ Notify \/ RebindInstall

SpecInstall == InitStateTypeCanInstall /\ [][NextInstall]_vars

NextUninstall == MutateState \/ MutateType \/ Notify \/ RebindUninstall

SpecUninstall == InitStateType /\ [][NextUninstall]_vars

NextUpdate ==
  MutateState \/ MutateType \/ MutateCanInstall \/ MutateOutdated \/ Notify \/ RebindUpdate

SpecUpdate == InitRecords /\ [][NextUpdate]_vars

NextEnableDisable == MutateState \/ Notify \/ RebindEnable \/ RebindDisable

SpecEnableDisable == InitState /\ [][NextEnableDisable]_vars

NextUpdateAll == MutateState \/ MutateType \/ MutateCanInstall \/ MutateOutdated \/ Notify

SpecUpdateAll == InitRecords /\ [][NextUpdateAll]_vars

\* run() of the composite, with its rebinds, the service's state changes and
\* the completion of the uninstall() calls it started; run() reads the
\* children's enabled flags, which follow the state of a User extension
NextCombinedRun == MutateState \/ Notify \/ RebindCombined \/ CombinedRun \/ UninstallThen

SpecCombinedRun == InitState /\ [][NextCombinedRun]_vars

\* run() of UninstallAction and of ReloadAction read no field of the record
NextUninstallRun == RebindUninstall \/ UninstallRun \/ UninstallThen

SpecUninstallRun == InitState /\ [][NextUninstallRun]_vars

NextReloadRun == RebindReload \/ ReloadRun \/ ReloadThen

SpecReloadRun == InitState /\ [][NextReloadRun]_vars

\* run() of UpdateAllAction, with the completion of the install() calls it
\* made, from every answer the service can give
NextUpdateAllRun == UpdateAllRun \/ InstallThen

SpecUpdateAllRun == InitRecords /\ [][NextUpdateAllRun]_vars

\* The search-navigation actions read nothing of the records.
InitIdle == InitState /\ \A e \in Extensions : records[e].state = "Uninstalled"

NextShow == ShowRun \/ ShowThen

SpecShow == InitIdle /\ [][NextShow]_vars

\* A widget of each kind, with the changes of the fields its render() reads.
InitWidget ==
  /\ workspace = TRUE
  /\ file = "absent"
  /\ Init
  /\ \A e \in Extensions : /\ records[e].state = "Uninstalled"
                           /\ records[e].type = "User"
                           /\ records[e].canInstall
                           /\ ~records[e].outdated

LabelChange == widget.kind = "Label" /\ MutateDisplayName

StatusWidgetChange ==
  widget.kind = "StatusWidget" /\ (MutateState \/ MutateDisabledInWorkspace)

InstallWidgetChange == widget.kind = "InstallWidget" /\ MutateInstallCount

RatingsWidgetChange == widget.kind = "RatingsWidget" /\ (MutateRating \/ MutateRatingCount)

NextWidget ==
  \/ LabelChange \/ StatusWidgetChange \/ InstallWidgetChange \/ RatingsWidgetChange
  \/ Notify \/ RebindWidget \/ DisposeWidget

SpecWidget == InitWidget /\ [][NextWidget]_vars

\* The configure action, with and without a workspace, the file there or not.
InitConfigure ==
  /\ widget = NewWidget("Label", FALSE)
  /\ Init
  /\ \A e \in Extensions : /\ records[e].state = "Uninstalled"
                           /\ records[e].type = "User"
                           /\ records[e].canInstall
                           /\ ~records[e].outdated

NextConfigure ==
  ConfigureRun \/ ConfigureReadThen \/ ConfigureWriteThen \/ ConfigureEditorThen

SpecConfigure == InitConfigure /\ [][NextConfigure]_vars

\* The constructor of ChangeSortAction and its search-change listener.
NextChangeSort == ChangeSortNew \/ SearchChange

SpecChangeSort == InitIdle /\ [][NextChangeSort]_vars

\* The navigation actions' flags: constructions, search changes, and runs of
\* the configure action with and without a workspace.
NextNavigation == ConfigureRun \/ ChangeSortNew \/ SearchChange

SpecNavigation == InitConfigure /\ [][NextNavigation]_vars

\* The four actions with an enabled and a disabled class, bound and rebound
\* while the state changes; every extension is an installable, outdated user
\* extension, so that UpdateAction follows the state too. The four share no
\* state: one of them is bound at a time, the others are as constructed.
NoOtherBound(a, b, c) == ~Bound(a) /\ ~Bound(b) /\ ~Bound(c)

InitClass ==
  /\ HostIdle
  /\ Init
  /\ \A e \in Extensions : /\ records[e].type = "User"
                           /\ records[e].canInstall
                           /\ records[e].outdated
                           /\ records[e].state = "Uninstalled"

NextClass ==
  \/ MutateState
  \/ Notify
  \/ NoOtherBound(enable, disable, reload) /\ RebindUpdate
  \/ NoOtherBound(update, disable, reload) /\ RebindEnable
  \/ NoOtherBound(update, enable, reload) /\ RebindDisable
  \/ NoOtherBound(update, enable, disable) /\ RebindReload

SpecClass == InitClass /\ [][NextClass]_vars

\* Disposal: an action that releases its listener and one that does not are
\* bound, any action and the widget are disposed, and the state changes.
NextDispose ==
  MutateState \/ Notify \/ RebindInstall \/ RebindEnable \/ DisposeAction \/ DisposeWidget

SpecDispose == InitState /\ [][NextDispose]_vars

Next ==
  \/ MutateState \/ MutateType \/ MutateOutdated \/ MutateCanInstall \/ Notify
  \/ RebindInstall \/ RebindUninstall \/ RebindUpdate \/ RebindEnable \/ RebindDisable
  \/ RebindReload \/ RebindCombined
  \/ InstallRun \/ UninstallRun \/ CombinedRun \/ UninstallThen \/ ReloadRun \/ ReloadThen
  \/ UpdateAllRun \/ InstallThen \/ ShowRun \/ ShowThen
  \/ MutateDisplayName \/ MutateInstallCount \/ MutateRating \/ MutateRatingCount
  \/ MutateDisabledInWorkspace \/ RebindWidget \/ DisposeWidget
  \/ ConfigureRun \/ ConfigureReadThen \/ ConfigureWriteThen \/ ConfigureEditorThen
  \/ ChangeSortNew \/ SearchChange \/ DisposeAction

Spec == Init /\ [][Next]_vars

====
